---------------------------- MODULE Spec2Model ----------------------------
(***************************************************************************)
(* URL shortener: short-code allocation and URL-mapping store.             *)
(*                                                                         *)
(* The model follows url-shortener/app: models.py (URLShortenerDB, one     *)
(* sqlite table guarded by a threading.Lock), utils.py (validation,        *)
(* normalisation, code generation) and main.py (the request handlers).     *)
(* Strings are TLA+ strings; a character is a string of length 1.          *)
(***************************************************************************)
EXTENDS Integers, Sequences, FiniteSets, TLC

(***************************************************************************)
(* Bounds of the model.                                                    *)
(***************************************************************************)
NThreads == 2
MaxReqs  == 2
MaxTime  == 0
NCodes   == 1
MaxCalls == 4
MaxParts == 3

(***************************************************************************)
(* Characters and character classes (Python str methods and re classes).   *)
(***************************************************************************)
Char(s, i) == SubSeq(s, i, i)

UpperChars == "ABCDEFGHIJKLMNOPQRSTUVWXYZ"
LowerChars == "abcdefghijklmnopqrstuvwxyz"
DigitChars == "0123456789"

Upper  == {Char(UpperChars, i) : i \in 1..26}
Lower  == {Char(LowerChars, i) : i \in 1..26}
Digit  == {Char(DigitChars, i) : i \in 1..10}
Letter == Upper \cup Lower
Alnum  == Letter \cup Digit
Space  == {" ", "\t", "\n", "\r", "\f"}

\* characters outside ASCII that Unicode classes as a letter or a digit: a
\* Latin letter with an accent and a superscript digit
UnicodeAlnum == {"é", "²"}

ToLower(c) ==
    IF c \in Upper
    THEN Char(LowerChars, CHOOSE i \in 1..26 : Char(UpperChars, i) = c)
    ELSE c

RECURSIVE LowerStr(_)
LowerStr(s) ==
    IF Len(s) = 0 THEN "" ELSE ToLower(Char(s, 1)) \o LowerStr(SubSeq(s, 2, Len(s)))

AllIn(s, class) == \A i \in 1..Len(s) : Char(s, i) \in class

\* str.isalnum(): the string is not empty and each of its characters is a
\* letter or a digit of Unicode
isalnum(s) == Len(s) > 0 /\ AllIn(s, Alnum \cup UnicodeAlnum)

StartsWith(s, p) == Len(s) >= Len(p) /\ SubSeq(s, 1, Len(p)) = p

\* str.split(sep) for a one-character separator
RECURSIVE Split(_, _)
Split(s, sep) ==
    IF \A i \in 1..Len(s) : Char(s, i) # sep
    THEN <<s>>
    ELSE LET k == CHOOSE i \in 1..Len(s) :
                      Char(s, i) = sep /\ \A j \in 1..(i - 1) : Char(s, j) # sep
         IN  <<SubSeq(s, 1, k - 1)>> \o Split(SubSeq(s, k + 1, Len(s)), sep)

\* str.strip(): drop leading and trailing whitespace
RECURSIVE LStrip(_)
LStrip(s) ==
    IF Len(s) > 0 /\ Char(s, 1) \in Space THEN LStrip(SubSeq(s, 2, Len(s))) ELSE s

RECURSIVE RStrip(_)
RStrip(s) ==
    IF Len(s) > 0 /\ Char(s, Len(s)) \in Space
    THEN RStrip(SubSeq(s, 1, Len(s) - 1)) ELSE s

Strip(s) == RStrip(LStrip(s))

(***************************************************************************)
(* utils.is_valid_url: the url_pattern regular expression (IGNORECASE),    *)
(* then urlparse.                                                          *)
(***************************************************************************)
\* [A-Z0-9](?:[A-Z0-9-]{0,61}[A-Z0-9])?
IsLabel(s) ==
    /\ Len(s) \in 1..63
    /\ Char(s, 1) \in Alnum
    /\ Char(s, Len(s)) \in Alnum
    /\ AllIn(s, Alnum \cup {"-"})

\* (?:label\.)+[A-Z]{2,6}\.?
IsDomain(h) ==
    \E d \in {h} \cup (IF Len(h) > 0 /\ Char(h, Len(h)) = "."
                       THEN {SubSeq(h, 1, Len(h) - 1)} ELSE {}) :
        LET parts == Split(d, ".")
            n     == Len(parts)
        IN  /\ n >= 2
            /\ \A i \in 1..(n - 1) : IsLabel(parts[i])
            /\ Len(parts[n]) \in 2..6
            /\ AllIn(parts[n], Letter)

\* \d{1,3}\.\d{1,3}\.\d{1,3}\.\d{1,3}
IsIPv4(h) ==
    LET parts == Split(h, ".")
    IN  /\ Len(parts) = 4
        /\ \A i \in 1..4 : Len(parts[i]) \in 1..3 /\ AllIn(parts[i], Digit)

IsHost(h) ==
    \/ IsDomain(h)
    \/ Len(h) = 9 /\ LowerStr(h) = "localhost"
    \/ IsIPv4(h)

\* (?::\d+)?
IsPortOpt(p) ==
    \/ p = ""
    \/ /\ Len(p) >= 2
       /\ Char(p, 1) = ":"
       /\ AllIn(SubSeq(p, 2, Len(p)), Digit)

\* (?:/?|[/?]\S+)
IsPathOpt(q) ==
    \/ q = ""
    \/ q = "/"
    \/ /\ Len(q) >= 2
       /\ Char(q, 1) \in {"/", "?"}
       /\ \A i \in 2..Len(q) : Char(q, i) \notin Space

\* the part of the pattern after ^https?:// up to the position of $
MatchAuthority(r) ==
    \E i \in 0..Len(r) : \E j \in i..Len(r) :
        /\ IsPathOpt(SubSeq(r, j + 1, Len(r)))
        /\ IsPortOpt(SubSeq(r, i + 1, j))
        /\ IsHost(SubSeq(r, 1, i))

\* $ matches at the end of the string and before a newline that ends it
MatchToEnd(r) ==
    \/ MatchAuthority(r)
    \/ /\ Len(r) > 0
       /\ Char(r, Len(r)) = "\n"
       /\ MatchAuthority(SubSeq(r, 1, Len(r) - 1))

url_pattern_match(url) ==
    \/ /\ Len(url) >= 7
       /\ LowerStr(SubSeq(url, 1, 7)) = "http://"
       /\ MatchToEnd(SubSeq(url, 8, Len(url)))
    \/ /\ Len(url) >= 8
       /\ LowerStr(SubSeq(url, 1, 8)) = "https://"
       /\ MatchToEnd(SubSeq(url, 9, Len(url)))

\* urlparse(url): all([parsed.scheme, parsed.netloc])
urlparse_ok(url) ==
    \E k \in 2..Len(url) :
        /\ StartsWith(SubSeq(url, k, Len(url)), "://")
        /\ AllIn(SubSeq(url, 1, k - 1), Alnum \cup {"+", "-", "."})
        /\ Len(url) >= k + 3
        /\ Char(url, k + 3) \notin {"/", "?", "#"}

\* variant: only urlparse is consulted
is_valid_url_parse_only(url) ==
    /\ url # ""
    /\ urlparse_ok(url)

is_valid_url(url) ==
    /\ url # ""
    /\ urlparse_ok(url)
    /\ url_pattern_match(url)

(***************************************************************************)
(* utils.sanitize_url                                                      *)
(***************************************************************************)
\* variant: only the https:// prefix is looked for
sanitize_url_https_only(url) ==
    IF url = "" THEN ""
    ELSE LET s == Strip(url)
         IN  IF s # "" /\ ~StartsWith(s, "https://")
             THEN "http://" \o s
             ELSE s

sanitize_url(url) ==
    IF url = "" THEN ""
    ELSE LET s == Strip(url)
         IN  IF s # "" /\ ~(StartsWith(s, "http://") \/ StartsWith(s, "https://"))
             THEN "http://" \o s
             ELSE s

(***************************************************************************)
(* utils.validate_short_code                                               *)
(***************************************************************************)
\* variant: the length is not checked
validate_short_code_any_length(short_code) ==
    /\ short_code # ""
    /\ isalnum(short_code)

\* variant: str.isalpha() in place of str.isalnum()
validate_short_code_letters_only(short_code) ==
    /\ short_code # ""
    /\ Len(short_code) = 6
    /\ Len(short_code) > 0 /\ AllIn(short_code, Letter \cup {"é"})

validate_short_code(short_code) ==
    /\ short_code # ""
    /\ Len(short_code) = 6
    /\ isalnum(short_code)

(***************************************************************************)
(* Program constants and the inputs the requests are drawn from.           *)
(***************************************************************************)
max_attempts == 10

\* candidates generate_short_code can return: 6 characters of
\* string.ascii_letters + string.digits
CodePool == <<"abc123", "Zz9Zz9", "q7W2e5", "000000", "AAAAAA">>
GenCodes == {CodePool[i] : i \in 1..NCodes}

\* short codes a client can put in a redirect or stats path
PathCodes == GenCodes \cup {"short"}

\* values of the "url" field of a shorten request
RawInputs == {"https://example.com", "github.com"}

\* request bodies of POST /api/shorten
Bodies ==
    {[json |-> "ok", has_url |-> TRUE, url |-> u] : u \in RawInputs}
        \cup {[json |-> "ok", has_url |-> FALSE, url |-> ""],
              [json |-> "malformed", has_url |-> FALSE, url |-> ""]}

Threads == 1..NThreads

(***************************************************************************)
(* State.                                                                  *)
(***************************************************************************)
VARIABLES
    urls,           \* rows of table urls
    lock,           \* db.lock: 0 when free, else the thread holding it
    clock,          \* CURRENT_TIMESTAMP
    pc,             \* where each thread is in its request
    req,            \* the request each thread is serving
    short_code,     \* shorten_url: the candidate code ("" when none)
    sanitized_url,  \* shorten_url: the normalised URL
    attempts,       \* generate_unique_short_code: iterations completed
    mapping,        \* redirect_to_original: the mapping read
    sent,           \* the request answered by the step just taken, and the answer
    served,         \* number of requests started
    visits,         \* per code, calls of increment_click_count completed
    issued,         \* per code, 201 responses that carried it
    first_stored    \* per code, the mapping first stored under it (None: never)

vars == <<urls, lock, clock, pc, req, short_code, sanitized_url, attempts,
          mapping, sent, served, visits, issued, first_stored>>

None == [none |-> TRUE]

Row(code, url, ts, n) ==
    [short_code |-> code, original_url |-> url, created_at |-> ts, click_count |-> n]

NoReq == [op |-> "none", json |-> "", has_url |-> FALSE, url |-> "", code |-> ""]

NoResp == [status |-> 0, error |-> "", short_code |-> "", original_url |-> "",
           click_count |-> 0, created_at |-> 0, location |-> "", ret |-> FALSE,
           list |-> <<>>]

Nothing == [req |-> NoReq, resp |-> NoResp]

Error(status, msg) == [NoResp EXCEPT !.status = status, !.error = msg]

\* the database file outlives the process: CREATE TABLE IF NOT EXISTS keeps
\* the mappings stored by earlier runs (here: not visited yet)
EarlierRows == {Row(CodePool[1], "http://localhost:3000", 0, 0)}

Init ==
    /\ urls \in SUBSET EarlierRows
    /\ lock = 0
    /\ clock = 0
    /\ pc = [t \in Threads |-> "idle"]
    /\ req = [t \in Threads |-> NoReq]
    /\ short_code = [t \in Threads |-> ""]
    /\ sanitized_url = [t \in Threads |-> ""]
    /\ attempts = [t \in Threads |-> 0]
    /\ mapping = [t \in Threads |-> None]
    /\ sent = Nothing
    /\ served = 0
    /\ visits = [c \in GenCodes |-> 0]
    /\ issued = [c \in GenCodes |-> 0]
    /\ first_stored = [c \in GenCodes |->
                          IF \E r \in urls : r.short_code = c
                          THEN CHOOSE r \in urls : r.short_code = c
                          ELSE None]

(***************************************************************************)
(* models.URLShortenerDB: the SQL statements on table urls.  fail is an    *)
(* exception raised by sqlite3 (connect, execute or commit).               *)
(***************************************************************************)
Matching(rows, code) == {r \in rows : r.short_code = code}

\* variant: the table has no PRIMARY KEY
create_url_mapping_no_key(rows, code, url, ts, fail) ==
    IF fail
    THEN [ok |-> FALSE, rows |-> rows]
    ELSE [ok |-> TRUE,  rows |-> rows \cup {Row(code, url, ts, 0)}]

\* variant: the row is committed before the exception is raised
create_url_mapping_committed(rows, code, url, ts, fail) ==
    IF Matching(rows, code) # {}
    THEN [ok |-> FALSE, rows |-> rows]
    ELSE [ok |-> ~fail, rows |-> rows \cup {Row(code, url, ts, 0)}]

\* variant: INSERT OR REPLACE INTO urls
create_url_mapping_replace(rows, code, url, ts, fail) ==
    IF fail
    THEN [ok |-> FALSE, rows |-> rows]
    ELSE [ok   |-> TRUE,
          rows |-> (rows \ Matching(rows, code)) \cup {Row(code, url, ts, 0)}]

\* variant: the creation counts as the first visit (click_count DEFAULT 1)
create_url_mapping_counted(rows, code, url, ts, fail) ==
    IF fail \/ Matching(rows, code) # {}
    THEN [ok |-> FALSE, rows |-> rows]
    ELSE [ok |-> TRUE,  rows |-> rows \cup {Row(code, url, ts, 1)}]

\* INSERT INTO urls (short_code, original_url): short_code is PRIMARY KEY,
\* created_at and click_count take their defaults
create_url_mapping(rows, code, url, ts, fail) ==
    IF fail \/ Matching(rows, code) # {}
    THEN [ok |-> FALSE, rows |-> rows]
    ELSE [ok |-> TRUE,  rows |-> rows \cup {Row(code, url, ts, 0)}]

\* SELECT ... WHERE short_code = ?; fetchone()
get_url_mapping(rows, code, fail) ==
    IF fail \/ Matching(rows, code) = {}
    THEN None
    ELSE CHOOSE r \in Matching(rows, code) : TRUE

\* variant: a visit of a code without a row creates the row
increment_click_count_upsert(rows, code, fail) ==
    IF fail
    THEN [ok |-> FALSE, rows |-> rows]
    ELSE [ok   |-> TRUE,
          rows |-> IF Matching(rows, code) = {}
                   THEN rows \cup {Row(code, "", 0, 1)}
                   ELSE {IF r.short_code = code
                         THEN [r EXCEPT !.click_count = @ + 1] ELSE r : r \in rows}]

\* variant: SET click_count = 1
increment_click_count_set(rows, code, fail) ==
    IF fail
    THEN [ok |-> FALSE, rows |-> rows]
    ELSE [ok   |-> Matching(rows, code) # {},
          rows |-> {IF r.short_code = code
                    THEN [r EXCEPT !.click_count = 1] ELSE r : r \in rows}]

\* UPDATE urls SET click_count = click_count + 1 WHERE short_code = ?
increment_click_count(rows, code, fail) ==
    IF fail
    THEN [ok |-> FALSE, rows |-> rows]
    ELSE [ok   |-> Matching(rows, code) # {},
          rows |-> {IF r.short_code = code
                    THEN [r EXCEPT !.click_count = @ + 1] ELSE r : r \in rows}]

\* SELECT short_code, original_url, created_at, click_count FROM urls;
\* fetchall(): the statement has no ORDER BY, so the rows come in an order
\* the engine chooses; an exception makes the list empty
get_all_urls(rows, fail) ==
    IF fail
    THEN {<<>>}
    ELSE {s \in [1..Cardinality(rows) -> rows] :
            \A i \in DOMAIN s : \A j \in DOMAIN s : i # j => s[i] # s[j]}

\* variant: DELETE FROM urls, without the WHERE clause
delete_url_all(rows, code, fail) ==
    IF fail
    THEN [ok |-> FALSE, rows |-> rows]
    ELSE [ok |-> rows # {}, rows |-> {}]

\* DELETE FROM urls WHERE short_code = ?
delete_url(rows, code, fail) ==
    IF fail
    THEN [ok |-> FALSE, rows |-> rows]
    ELSE [ok |-> Matching(rows, code) # {}, rows |-> rows \ Matching(rows, code)]

(***************************************************************************)
(* main.py: what the handlers answer.                                      *)
(***************************************************************************)
\* abort(status) raised inside the handler's try block: the HTTPException
\* is an Exception, so the except clause catches it and calls abort(500)
abort_in_try(status) == Error(500, "Internal server error")

\* variant: exhaustion reported as a client error
exhausted_bad_request == Error(400, "Unable to generate unique short code")

\* the answer of generate_unique_short_code returning None
exhausted == Error(500, "Unable to generate unique short code")

created(code, url) ==
    [NoResp EXCEPT !.status = 201, !.short_code = code, !.original_url = url]

\* variant: click_count is left out of the answer
stats_without_count(m) ==
    [NoResp EXCEPT !.status = 200, !.short_code = m.short_code,
                   !.original_url = m.original_url, !.created_at = m.created_at]

stats(m) ==
    [NoResp EXCEPT !.status = 200, !.short_code = m.short_code,
                   !.original_url = m.original_url,
                   !.click_count = m.click_count, !.created_at = m.created_at]

\* variant: the redirect goes to the short code, not to the URL
found_to_code(m) == [NoResp EXCEPT !.status = 302, !.location = m.short_code]

found(m) == [NoResp EXCEPT !.status = 302, !.location = m.original_url]

(***************************************************************************)
(* Steps of a thread.                                                      *)
(***************************************************************************)
WaitPcs == {"get_wait", "create_wait", "incr_wait", "delete_wait", "list_wait"}

Locked(p) ==
    CASE p = "get_wait"    -> "get_db"
      [] p = "create_wait" -> "create_db"
      [] p = "incr_wait"   -> "incr_db"
      [] p = "delete_wait" -> "delete_db"
      [] p = "list_wait"   -> "list_db"

Shorten(body) ==
    [NoReq EXCEPT !.op = "shorten", !.json = body.json,
                  !.has_url = body.has_url, !.url = body.url]

Lookup(op, code) == [NoReq EXCEPT !.op = op, !.code = code]

\* a thread takes the next request
Accept(t) ==
    /\ pc[t] = "idle"
    /\ served' = served + 1

\* the handler returns: its locals go away
Finish(t, r, response) ==
    /\ pc' = [pc EXCEPT ![t] = "idle"]
    /\ req' = [req EXCEPT ![t] = NoReq]
    /\ sent' = [req |-> r, resp |-> response]
    /\ short_code' = [short_code EXCEPT ![t] = ""]
    /\ sanitized_url' = [sanitized_url EXCEPT ![t] = ""]
    /\ attempts' = [attempts EXCEPT ![t] = 0]
    /\ mapping' = [mapping EXCEPT ![t] = None]

\* the handler goes on to its next database call
Continue(t, r, p) ==
    /\ pc' = [pc EXCEPT ![t] = p]
    /\ req' = [req EXCEPT ![t] = r]
    /\ sent' = Nothing

\* variant: the URL is normalised and stored without being validated
shorten_url_unvalidated(t, body) ==
    /\ Accept(t)
    /\ IF body.json = "malformed"
       THEN Finish(t, Shorten(body), Error(500, "Internal server error"))
       ELSE IF ~body.has_url
       THEN Finish(t, Shorten(body), Error(400, "Missing 'url' field in request body"))
       ELSE /\ Continue(t, Shorten(body), "get_wait")
            /\ sanitized_url' = [sanitized_url EXCEPT ![t] = sanitize_url(body.url)]
            /\ UNCHANGED <<short_code, attempts, mapping>>
    /\ UNCHANGED <<urls, lock, clock, visits, issued, first_stored>>

\* POST /api/shorten up to the first call of get_url_mapping
shorten_url(t, body) ==
    /\ Accept(t)
    /\ IF body.json = "malformed"
       THEN Finish(t, Shorten(body), Error(500, "Internal server error"))
       ELSE IF ~body.has_url
       THEN Finish(t, Shorten(body), Error(400, "Missing 'url' field in request body"))
       ELSE IF ~is_valid_url(body.url)
       THEN Finish(t, Shorten(body), Error(400, "Invalid URL format"))
       ELSE /\ Continue(t, Shorten(body), "get_wait")
            /\ sanitized_url' = [sanitized_url EXCEPT ![t] = sanitize_url(body.url)]
            /\ UNCHANGED <<short_code, attempts, mapping>>
    /\ UNCHANGED <<urls, lock, clock, visits, issued, first_stored>>

\* variant: the database section is entered without waiting for the lock
acquire_unguarded(t) ==
    /\ pc[t] \in WaitPcs
    /\ lock' = t
    /\ pc' = [pc EXCEPT ![t] = Locked(pc[t])]
    /\ sent' = Nothing
    /\ UNCHANGED <<urls, clock, req, short_code, sanitized_url, attempts,
                   mapping, served, visits, issued, first_stored>>

\* with self.lock:
acquire(t) ==
    /\ pc[t] \in WaitPcs
    /\ lock = 0
    /\ lock' = t
    /\ pc' = [pc EXCEPT ![t] = Locked(pc[t])]
    /\ sent' = Nothing
    /\ UNCHANGED <<urls, clock, req, short_code, sanitized_url, attempts,
                   mapping, served, visits, issued, first_stored>>

\* for _ in range(max_attempts): is there an iteration number i
in_range_inclusive(i) == i <= max_attempts

in_range(i) == i < max_attempts

\* one iteration of the loop of generate_unique_short_code: draw a candidate
\* (generate_short_code), check that it is free, then return it, go round
\* again, or give up
generate_unique_short_code(t, fail) ==
    /\ pc[t] = "get_db"
    /\ req[t].op = "shorten"
    /\ lock' = 0
    /\ \E c \in GenCodes :
        IF get_url_mapping(urls, c, fail) = None
        THEN /\ Continue(t, req[t], "create_wait")
             /\ short_code' = [short_code EXCEPT ![t] = c]
             /\ UNCHANGED <<attempts, sanitized_url, mapping>>
        ELSE IF in_range(attempts[t] + 1)
        THEN /\ Continue(t, req[t], "get_wait")
             /\ attempts' = [attempts EXCEPT ![t] = @ + 1]
             /\ UNCHANGED <<short_code, sanitized_url, mapping>>
        ELSE Finish(t, req[t], exhausted)
    /\ UNCHANGED <<urls, clock, served, visits, issued, first_stored>>

\* shorten_url from db.create_url_mapping to the response; the INSERT
\* reads CURRENT_TIMESTAMP, which may have advanced
store_mapping(t, fail) ==
    /\ pc[t] = "create_db"
    /\ lock' = 0
    /\ \E now \in clock..MaxTime :
        LET r == create_url_mapping(urls, short_code[t], sanitized_url[t], now, fail)
        IN  /\ clock' = now
            /\ urls' = r.rows
            /\ IF r.ok
               THEN /\ Finish(t, req[t], created(short_code[t], sanitized_url[t]))
                    /\ issued' = [issued EXCEPT ![short_code[t]] = @ + 1]
                    /\ first_stored' =
                          IF first_stored[short_code[t]] = None
                          THEN [first_stored EXCEPT ![short_code[t]] =
                                  Row(short_code[t], sanitized_url[t], now, 0)]
                          ELSE first_stored
               ELSE /\ Finish(t, req[t], Error(500, "Failed to create URL mapping"))
                    /\ UNCHANGED <<issued, first_stored>>
    /\ UNCHANGED <<served, visits>>

\* GET /<short_code> up to the call of get_url_mapping
redirect_to_original(t, code) ==
    /\ Accept(t)
    /\ IF ~validate_short_code(code)
       THEN Finish(t, Lookup("redirect", code), abort_in_try(404))
       ELSE /\ Continue(t, Lookup("redirect", code), "get_wait")
            /\ UNCHANGED <<short_code, sanitized_url, attempts, mapping>>
    /\ UNCHANGED <<urls, lock, clock, visits, issued, first_stored>>

\* redirect_to_original: the lookup
redirect_lookup(t, fail) ==
    /\ pc[t] = "get_db"
    /\ req[t].op = "redirect"
    /\ lock' = 0
    /\ LET m == get_url_mapping(urls, req[t].code, fail)
       IN  IF m = None
           THEN Finish(t, req[t], abort_in_try(404))
           ELSE /\ Continue(t, req[t], "incr_wait")
                /\ mapping' = [mapping EXCEPT ![t] = m]
                /\ UNCHANGED <<short_code, sanitized_url, attempts>>
    /\ UNCHANGED <<urls, clock, served, visits, issued, first_stored>>

\* redirect_to_original from db.increment_click_count, whose result it
\* drops, to the response
redirect_visit(t, fail) ==
    /\ pc[t] = "incr_db"
    /\ lock' = 0
    /\ urls' = increment_click_count(urls, req[t].code, fail).rows
    /\ visits' = [visits EXCEPT ![req[t].code] = @ + 1]
    /\ Finish(t, req[t], found(mapping[t]))
    /\ UNCHANGED <<clock, served, issued, first_stored>>

\* GET /api/stats/<short_code> up to the call of get_url_mapping
get_url_stats(t, code) ==
    /\ Accept(t)
    /\ IF ~validate_short_code(code)
       THEN Finish(t, Lookup("stats", code), Error(400, "Invalid short code format"))
       ELSE /\ Continue(t, Lookup("stats", code), "get_wait")
            /\ UNCHANGED <<short_code, sanitized_url, attempts, mapping>>
    /\ UNCHANGED <<urls, lock, clock, visits, issued, first_stored>>

\* variant: looking at the statistics counts as a visit
stats_lookup_counting(t, fail) ==
    /\ pc[t] = "get_db"
    /\ req[t].op = "stats"
    /\ lock' = 0
    /\ urls' = increment_click_count(urls, req[t].code, fail).rows
    /\ LET m == get_url_mapping(urls, req[t].code, fail)
       IN  IF m = None
           THEN Finish(t, req[t], Error(404, "Short code not found"))
           ELSE Finish(t, req[t], stats(m))
    /\ UNCHANGED <<clock, served, visits, issued, first_stored>>

\* get_url_stats: the lookup and the response
stats_lookup(t, fail) ==
    /\ pc[t] = "get_db"
    /\ req[t].op = "stats"
    /\ lock' = 0
    /\ LET m == get_url_mapping(urls, req[t].code, fail)
       IN  IF m = None
           THEN Finish(t, req[t], Error(404, "Short code not found"))
           ELSE Finish(t, req[t], stats(m))
    /\ UNCHANGED <<urls, clock, served, visits, issued, first_stored>>

\* db.delete_url called by administrative or test tooling
admin_delete(t, code) ==
    /\ Accept(t)
    /\ Continue(t, Lookup("delete", code), "delete_wait")
    /\ UNCHANGED <<urls, lock, clock, short_code, sanitized_url, attempts,
                   mapping, visits, issued, first_stored>>

delete_row(t, fail) ==
    /\ pc[t] = "delete_db"
    /\ lock' = 0
    /\ LET r == delete_url(urls, req[t].code, fail)
       IN  /\ urls' = r.rows
           /\ Finish(t, req[t], [NoResp EXCEPT !.ret = r.ok])
    /\ UNCHANGED <<clock, served, visits, issued, first_stored>>

\* db.get_all_urls called by administrative or test tooling
admin_list(t) ==
    /\ Accept(t)
    /\ Continue(t, Lookup("list", ""), "list_wait")
    /\ UNCHANGED <<urls, lock, clock, short_code, sanitized_url, attempts,
                   mapping, visits, issued, first_stored>>

\* variant: the lock is taken with acquire() and an exception skips the
\* release()
list_rows_keeps_lock(t, fail) ==
    /\ pc[t] = "list_db"
    /\ lock' = IF fail THEN lock ELSE 0
    /\ \E s \in get_all_urls(urls, fail) :
          Finish(t, req[t], [NoResp EXCEPT !.list = s])
    /\ UNCHANGED <<urls, clock, served, visits, issued, first_stored>>

list_rows(t, fail) ==
    /\ pc[t] = "list_db"
    /\ lock' = 0
    /\ \E s \in get_all_urls(urls, fail) :
          Finish(t, req[t], [NoResp EXCEPT !.list = s])
    /\ UNCHANGED <<urls, clock, served, visits, issued, first_stored>>

(***************************************************************************)
(* Specifications.                                                         *)
(***************************************************************************)
\* client requests, administrative calls and storage failures; the threads
\* take MaxReqs requests between them
Next ==
    \/ \E t \in Threads :
        \/ \E b \in Bodies : served < MaxReqs /\ shorten_url(t, b)
        \/ \E c \in PathCodes : served < MaxReqs /\ redirect_to_original(t, c)
        \/ \E c \in PathCodes : served < MaxReqs /\ get_url_stats(t, c)
        \/ \E c \in GenCodes : served < MaxReqs /\ admin_delete(t, c)
        \/ served < MaxReqs /\ admin_list(t)
        \/ acquire(t)
        \/ \E fail \in BOOLEAN :
            \/ generate_unique_short_code(t, fail)
            \/ store_mapping(t, fail)
            \/ redirect_lookup(t, fail)
            \/ redirect_visit(t, fail)
            \/ stats_lookup(t, fail)
            \/ delete_row(t, fail)
            \/ list_rows(t, fail)

Spec == Init /\ [][Next]_vars

\* fair scheduling: a thread inside a database call finishes it, and a
\* thread that keeps finding the lock free from time to time gets it
InStore(t) ==
    \E fail \in BOOLEAN :
        \/ generate_unique_short_code(t, fail)
        \/ store_mapping(t, fail)
        \/ redirect_lookup(t, fail)
        \/ redirect_visit(t, fail)
        \/ stats_lookup(t, fail)
        \/ delete_row(t, fail)
        \/ list_rows(t, fail)

Fairness == \A t \in Threads : WF_vars(InStore(t)) /\ SF_vars(acquire(t))

\* the service under fair scheduling of its threads
SpecFair == Init /\ [][Next]_vars /\ Fairness

\* the same on a storage engine that does not fail
NextAvail ==
    \/ \E t \in Threads :
        \/ \E b \in Bodies : served < MaxReqs /\ shorten_url(t, b)
        \/ \E c \in PathCodes : served < MaxReqs /\ redirect_to_original(t, c)
        \/ \E c \in PathCodes : served < MaxReqs /\ get_url_stats(t, c)
        \/ \E c \in GenCodes : served < MaxReqs /\ admin_delete(t, c)
        \/ served < MaxReqs /\ admin_list(t)
        \/ acquire(t)
        \/ generate_unique_short_code(t, FALSE)
        \/ store_mapping(t, FALSE)
        \/ redirect_lookup(t, FALSE)
        \/ redirect_visit(t, FALSE)
        \/ stats_lookup(t, FALSE)
        \/ delete_row(t, FALSE)
        \/ list_rows(t, FALSE)

SpecAvail == Init /\ [][NextAvail]_vars

\* client requests only (no administrative call), storage does not fail
NextService ==
    \/ \E t \in Threads :
        \/ \E b \in Bodies : served < MaxReqs /\ shorten_url(t, b)
        \/ \E c \in PathCodes : served < MaxReqs /\ redirect_to_original(t, c)
        \/ \E c \in PathCodes : served < MaxReqs /\ get_url_stats(t, c)
        \/ acquire(t)
        \/ generate_unique_short_code(t, FALSE)
        \/ store_mapping(t, FALSE)
        \/ redirect_lookup(t, FALSE)
        \/ redirect_visit(t, FALSE)
        \/ stats_lookup(t, FALSE)

SpecService == Init /\ [][NextService]_vars

\* one client that sends MaxCalls requests one after the other and waits for
\* each answer (the test client of tests/test_basic.py); storage does not fail
NextClient ==
    \/ \E b \in Bodies : served < MaxCalls /\ shorten_url(1, b)
    \/ \E c \in PathCodes : served < MaxCalls /\ redirect_to_original(1, c)
    \/ \E c \in PathCodes : served < MaxCalls /\ get_url_stats(1, c)
    \/ acquire(1)
    \/ generate_unique_short_code(1, FALSE)
    \/ store_mapping(1, FALSE)
    \/ redirect_lookup(1, FALSE)
    \/ redirect_visit(1, FALSE)
    \/ stats_lookup(1, FALSE)

SpecClient == Init /\ [][NextClient]_vars

\* the same requests on a table that also holds a mapping stored by an
\* earlier run under a code this run does not draw; storage does not fail
OtherRow == Row(CodePool[NCodes + 1], "https://www.example.com", 0, 3)

TableCodes == GenCodes \cup {OtherRow.short_code}

InitShared ==
    /\ urls \in {rows \cup {OtherRow} : rows \in SUBSET EarlierRows}
    /\ lock = 0
    /\ clock = 0
    /\ pc = [t \in Threads |-> "idle"]
    /\ req = [t \in Threads |-> NoReq]
    /\ short_code = [t \in Threads |-> ""]
    /\ sanitized_url = [t \in Threads |-> ""]
    /\ attempts = [t \in Threads |-> 0]
    /\ mapping = [t \in Threads |-> None]
    /\ sent = Nothing
    /\ served = 0
    /\ visits = [c \in GenCodes |-> 0]
    /\ issued = [c \in GenCodes |-> 0]
    /\ first_stored = [c \in GenCodes |->
                          IF \E r \in urls : r.short_code = c
                          THEN CHOOSE r \in urls : r.short_code = c
                          ELSE None]

NextShared ==
    \/ \E t \in Threads :
        \/ \E b \in Bodies : served < MaxReqs /\ shorten_url(t, b)
        \/ \E c \in GenCodes : served < MaxReqs /\ redirect_to_original(t, c)
        \/ \E c \in TableCodes : served < MaxReqs /\ get_url_stats(t, c)
        \/ \E c \in TableCodes : served < MaxReqs /\ admin_delete(t, c)
        \/ served < MaxReqs /\ admin_list(t)
        \/ acquire(t)
        \/ generate_unique_short_code(t, FALSE)
        \/ store_mapping(t, FALSE)
        \/ redirect_lookup(t, FALSE)
        \/ redirect_visit(t, FALSE)
        \/ stats_lookup(t, FALSE)
        \/ delete_row(t, FALSE)
        \/ list_rows(t, FALSE)

SpecShared == InitShared /\ [][NextShared]_vars

\* one client that sends shorten requests with the URLs of test_url_validation
\* and URLs with an upper-case scheme or surrounding whitespace; storage
\* does not fail
RejectedUrls == {"not-a-url", "ftp://example.com", "https://", "http://.com", ""}

AcceptedUrls ==
    {"https://www.example.com", "http://localhost:3000", "http://192.168.1.1:8080"}

BoundaryBodies ==
    {[json |-> "ok", has_url |-> TRUE, url |-> u] :
        u \in RejectedUrls \cup AcceptedUrls
                \cup {"HTTP://example.com", " https://example.com",
                      "https://example.com\n"}}

NextBoundary ==
    \/ \E b \in BoundaryBodies : served < MaxCalls /\ shorten_url(1, b)
    \/ acquire(1)
    \/ generate_unique_short_code(1, FALSE)
    \/ store_mapping(1, FALSE)

SpecBoundary == Init /\ [][NextBoundary]_vars

\* utils.py called on its own: the argument is one of the strings made of
\* at most MaxParts of these parts
Parts == <<" ", "\t", "http://", "https://", "HTTP://", "a.com">>

RECURSIVE Strings(_)
Strings(n) ==
    IF n = 0 THEN {""}
    ELSE Strings(n - 1)
            \cup {s \o Parts[i] : s \in Strings(n - 1), i \in DOMAIN Parts}

Call(f, arg) == [NoReq EXCEPT !.op = f, !.url = arg]

InitUtils ==
    /\ urls = {}
    /\ lock = 0
    /\ clock = 0
    /\ pc = [t \in Threads |-> "idle"]
    /\ req \in {[t \in Threads |-> IF t = 1 THEN Call("sanitize_url", x) ELSE NoReq] :
                  x \in Strings(MaxParts)}
    /\ short_code = [t \in Threads |-> ""]
    /\ sanitized_url = [t \in Threads |-> ""]
    /\ attempts = [t \in Threads |-> 0]
    /\ mapping = [t \in Threads |-> None]
    /\ sent = Nothing
    /\ served = 0
    /\ visits = [c \in GenCodes |-> 0]
    /\ issued = [c \in GenCodes |-> 0]
    /\ first_stored = [c \in GenCodes |-> None]

\* sanitize_url(url) is called and returns
sanitize_url_call ==
    /\ req[1].op = "sanitize_url"
    /\ sent' = [req  |-> req[1],
                resp |-> [NoResp EXCEPT !.original_url = sanitize_url(req[1].url)]]
    /\ req' = [req EXCEPT ![1] = NoReq]
    /\ UNCHANGED <<urls, lock, clock, pc, short_code, sanitized_url, attempts,
                   mapping, served, visits, issued, first_stored>>

NextUtils == sanitize_url_call

SpecUtils == InitUtils /\ [][NextUtils]_vars

\* one visit and concurrent reads: every code has a mapping, visited some
\* number of times by earlier runs; thread 1 serves redirects until one
\* visit of the code has been recorded, the other threads serve stats
\* requests; storage failures included
VisitedRows(n) == {Row(c, "http://localhost:3000", 0, n) : c \in GenCodes}

InitRace ==
    /\ urls \in {VisitedRows(n) : n \in 0..MaxReqs}
    /\ lock = 0
    /\ clock = 0
    /\ pc = [t \in Threads |-> "idle"]
    /\ req = [t \in Threads |-> NoReq]
    /\ short_code = [t \in Threads |-> ""]
    /\ sanitized_url = [t \in Threads |-> ""]
    /\ attempts = [t \in Threads |-> 0]
    /\ mapping = [t \in Threads |-> None]
    /\ sent = Nothing
    /\ served = 0
    /\ visits = [c \in GenCodes |-> 0]
    /\ issued = [c \in GenCodes |-> 0]
    /\ first_stored = [c \in GenCodes |-> CHOOSE r \in urls : r.short_code = c]

NextRace ==
    \/ \E c \in GenCodes :
            served < MaxCalls /\ visits[c] = 0 /\ redirect_to_original(1, c)
    \/ \E t \in Threads \ {1} : \E c \in GenCodes :
            served < MaxCalls /\ get_url_stats(t, c)
    \/ \E t \in Threads : \E fail \in BOOLEAN :
        \/ acquire(t)
        \/ redirect_lookup(t, fail)
        \/ redirect_visit(t, fail)
        \/ stats_lookup(t, fail)

SpecRace == InitRace /\ [][NextRace]_vars

\* validate_short_code on its own, called once with a string put together
\* from at most MaxParts pieces: too short, too long, six characters of
\* [A-Za-z0-9], and six characters with one from outside that alphabet
CodeParts == <<"abc", "12", "3", "é", "²", "-", " ">>

RECURSIVE CodeStrings(_)
CodeStrings(n) ==
    IF n = 0 THEN {""}
    ELSE CodeStrings(n - 1)
            \cup {s \o CodeParts[i] : s \in CodeStrings(n - 1), i \in DOMAIN CodeParts}

CodeCall(arg) == [NoReq EXCEPT !.op = "validate_short_code", !.code = arg]

InitCodes ==
    /\ urls = {}
    /\ lock = 0
    /\ clock = 0
    /\ pc = [t \in Threads |-> "idle"]
    /\ req \in {[t \in Threads |-> IF t = 1 THEN CodeCall(x) ELSE NoReq] :
                  x \in CodeStrings(MaxParts)}
    /\ short_code = [t \in Threads |-> ""]
    /\ sanitized_url = [t \in Threads |-> ""]
    /\ attempts = [t \in Threads |-> 0]
    /\ mapping = [t \in Threads |-> None]
    /\ sent = Nothing
    /\ served = 0
    /\ visits = [c \in GenCodes |-> 0]
    /\ issued = [c \in GenCodes |-> 0]
    /\ first_stored = [c \in GenCodes |-> None]

\* validate_short_code(short_code) is called and returns
validate_short_code_call ==
    /\ req[1].op = "validate_short_code"
    /\ sent' = [req  |-> req[1],
                resp |-> [NoResp EXCEPT !.ret = validate_short_code(req[1].code)]]
    /\ req' = [req EXCEPT ![1] = NoReq]
    /\ UNCHANGED <<urls, lock, clock, pc, short_code, sanitized_url, attempts,
                   mapping, served, visits, issued, first_stored>>

NextCodes == validate_short_code_call

SpecCodes == InitCodes /\ [][NextCodes]_vars

(***************************************************************************)
(* Properties.  A step is the step of thread t when pc[t] changes.         *)
(***************************************************************************)
StepOf(t) == pc'[t] # pc[t]

\* this step takes request r: it answers it at once, or a thread goes on
\* with it
NewRequest(r) ==
    /\ served' = served + 1
    /\ \/ sent'.req = r
       \/ \E t \in Threads : req[t] = NoReq /\ req'[t] = r

\* C1: in every reachable state no two stored mappings share a short_code,
\* whatever shorten, redirect, stats and delete requests the threads
\* interleave.
C1_Uniqueness ==
    \A r1 \in urls : \A r2 \in urls : r1.short_code = r2.short_code => r1 = r2

\* an insert has just been turned down and every code has its mapping
C1_Witness ==
    /\ sent.resp.error = "Failed to create URL mapping"
    /\ \A c \in GenCodes : Cardinality(Matching(urls, c)) = 1

\* C2: when two concurrent shorten requests draw the same candidate and
\* both find it free before either inserts, at most one of them inserts it
\* and at most one answers 201 with that code.
C2_OneWinner ==
    \A c \in GenCodes :
        /\ issued[c] <= 1
        /\ Cardinality(Matching(urls, c)) <= 1
        /\ issued[c] = 1 => Matching(urls, c) # {}

\* a thread found the code free, another inserted it first, and the
\* thread's own insert has just been turned down
C2_Witness ==
    /\ sent.resp.error = "Failed to create URL mapping"
    /\ \E c \in GenCodes : issued[c] = 1 /\ Matching(urls, c) # {}

\* C3 (as claimed): with storage available every shorten request with a
\* valid URL is answered 201, unless all 10 attempts collided.
C3_AlwaysCreated ==
    (sent.req.op = "shorten" /\ sent.req.has_url /\ is_valid_url(sent.req.url))
        => \/ sent.resp.status = 201
           \/ sent.resp.error = "Unable to generate unique short code"

\* C4: M concurrent increment_click_count calls on an existing code leave
\* click_count at the initial count plus M: no update is lost.
C4_NoLostUpdate ==
    \A r \in urls : r.click_count = visits[r.short_code]

\* a visit is in flight whose snapshot is older than the stored count:
\* another visit of the same code was committed after it read the mapping
C4_Witness ==
    \E t \in Threads : \E r \in urls :
        /\ pc[t] \in {"incr_wait", "incr_db"}
        /\ r.short_code = req[t].code
        /\ mapping[t].click_count < r.click_count

\* C5 (as claimed): a redirect that answers 302 has added exactly one to
\* the click_count of the mapping whose original_url it returns, and a step
\* that does not answer 302 changes no click_count.
C5_CountedOncePerRedirect ==
    [][\A t \in Threads : StepOf(t) =>
          IF sent'.resp.status = 302
          THEN \E r \in urls :
                  /\ r = [mapping[t] EXCEPT !.click_count = r.click_count]
                  /\ urls' = (urls \ {r}) \cup {[r EXCEPT !.click_count = @ + 1]}
          ELSE \A r \in urls : \A q \in urls' :
                  q.short_code = r.short_code /\ q.created_at = r.created_at
                      => q.click_count = r.click_count]_vars

\* C6 (as claimed): shorten_url decides on the normalised URL: the request
\* is turned down as invalid exactly when is_valid_url rejects
\* sanitize_url(raw).
C6_ValidatesNormalized ==
    (sent.req.op = "shorten" /\ sent.req.has_url)
        => (sent.resp.error = "Invalid URL format"
                <=> ~is_valid_url(sanitize_url(sent.req.url)))

\* C7 (as claimed): the first request, a shorten of "github.com", is
\* answered 201 with original_url "http://github.com" and a well-formed
\* code, and the mapping is stored (the redirect and the stats request of
\* the scenario come after it).
C7_EndToEnd ==
    (sent.req.op = "shorten" /\ sent.req.url = "github.com" /\ served = 1)
        => /\ sent.resp.status = 201
           /\ sent.resp.original_url = "http://github.com"
           /\ validate_short_code(sent.resp.short_code)
           /\ \E r \in urls : /\ r.short_code = sent.resp.short_code
                              /\ r.original_url = "http://github.com"

\* C8 (as claimed): a redirect request for an ill-formed code, or for a
\* well-formed code without a mapping, is answered 404.
C8_RedirectNotFound ==
    (/\ sent.req.op = "redirect"
     /\ \/ ~validate_short_code(sent.req.code)
        \/ Matching(urls, sent.req.code) = {})
        => sent.resp.status = 404

\* C9: generate_unique_short_code makes at most 10 draws and existence
\* checks: every check is one of the first 10, and it either returns the
\* candidate, uses up one attempt, or is the 10th and gives up.
C9_BoundedAttempts ==
    [][\A t \in Threads :
          (StepOf(t) /\ pc[t] = "get_db" /\ req[t].op = "shorten") =>
              /\ attempts[t] < max_attempts
              /\ \/ pc'[t] = "create_wait" /\ short_code'[t] \in GenCodes
                 \/ pc'[t] = "get_wait" /\ attempts'[t] = attempts[t] + 1
                 \/ pc'[t] = "idle" /\ attempts[t] = max_attempts - 1]_vars

\* a shorten request has given up
C9_Witness ==
    /\ sent.req.op = "shorten"
    /\ sent.resp.error = "Unable to generate unique short code"

\* C10: when the 10th draw of a create collides like the 9 before it, the
\* request is answered 500 (unable to generate a code), and no step of the
\* code generation adds or changes a row.
C10_ExhaustionLeavesStore ==
    [][\A t \in Threads :
          (StepOf(t) /\ pc[t] = "get_db" /\ req[t].op = "shorten") =>
              /\ urls' = urls
              /\ (attempts[t] = max_attempts - 1 /\ pc'[t] # "create_wait") =>
                    /\ pc'[t] = "idle"
                    /\ sent'.req = req[t]
                    /\ sent'.resp.status = 500
                    /\ sent'.resp.error = "Unable to generate unique short code"]_vars

\* a create has given up while every code it can draw is stored
C10_Witness ==
    /\ sent.resp.status = 500
    /\ sent.resp.error = "Unable to generate unique short code"
    /\ \A c \in GenCodes : Matching(urls, c) # {}

\* C11: round trip: right after a shorten request was answered 201 with
\* code c and original_url u, get_url_mapping(c) returns a mapping with
\* short_code c, original_url u and click_count 0, and u is the normalised
\* form of the URL submitted.
C11_RoundTrip ==
    sent.resp.status = 201 =>
        LET m == get_url_mapping(urls, sent.resp.short_code, FALSE)
        IN  /\ m # None
            /\ m.short_code = sent.resp.short_code
            /\ m.original_url = sent.resp.original_url
            /\ m.original_url = sanitize_url(sent.req.url)
            /\ m.click_count = 0

\* a shorten request of "https://example.com" has just been answered 201
C11_Witness ==
    /\ sent.resp.status = 201
    /\ sent.req.url = "https://example.com"
    /\ sent.resp.original_url = "https://example.com"

\* C12: one client creates a mapping and then sends N redirects of its code
\* and nothing else on that code: between its requests get_url_mapping of
\* the code returns click_count N, and a stats request reports N.
C12_VisitsCounted ==
    /\ \A c \in GenCodes :
          (issued[c] = 1 /\ pc[1] = "idle") =>
              /\ get_url_mapping(urls, c, FALSE) # None
              /\ get_url_mapping(urls, c, FALSE).click_count = visits[c]
    /\ (sent.req.op = "stats" /\ sent.resp.status = 200) =>
          sent.resp.click_count = visits[sent.req.code]

\* the client created the code, was redirected twice, and the stats request
\* has just reported 2
C12_Witness ==
    /\ sent.req.op = "stats"
    /\ sent.resp.status = 200
    /\ issued[sent.req.code] = 1
    /\ visits[sent.req.code] = 2
    /\ sent.resp.click_count = 2

\* C13: no click_count is negative, and in every step the click_count of a
\* code that keeps its mapping either stays as it is or grows by exactly 1,
\* the latter only in the increment_click_count step of a redirect of that
\* code: no create, lookup, stats, list or failed call changes it.
C13_CountOnlyIncrements ==
    [][/\ \A q \in urls' : q.click_count >= 0
       /\ \A r \in urls : \A q \in urls' :
             q.short_code = r.short_code =>
                 \/ q.click_count = r.click_count
                 \/ /\ q.click_count = r.click_count + 1
                    /\ \E t \in Threads :
                          /\ StepOf(t)
                          /\ pc[t] = "incr_db"
                          /\ req[t].code = r.short_code]_vars

\* a mapping has been visited twice
C13_Witness ==
    \E r \in urls : r.click_count = 2 /\ visits[r.short_code] >= 2

\* C14 (as claimed): once a short code has been stored, every mapping
\* stored under it in any later state has the original_url and created_at
\* it was first stored with, whatever operations run.
C14_NeverChanges ==
    \A r \in urls :
        first_stored[r.short_code] # None =>
            /\ r.original_url = first_stored[r.short_code].original_url
            /\ r.created_at = first_stored[r.short_code].created_at

\* C14 (amended): no step updates a mapping in place: a code that has a
\* mapping before and after a step has the same original_url and created_at
\* in both.
C14_NoUpdateInPlace ==
    [][\A r \in urls : \A q \in urls' :
          q.short_code = r.short_code =>
              /\ q.original_url = r.original_url
              /\ q.created_at = r.created_at]_vars

\* a mapping created by a shorten request has since been visited and still
\* has the URL it was created with
C14_Witness ==
    \E r \in urls :
        /\ issued[r.short_code] = 1
        /\ r.click_count >= 1
        /\ r.original_url = "https://example.com"

\* C15: a shorten request whose JSON body has no "url", or whose url
\* is_valid_url rejects, is answered 400 in the step that takes it: no
\* database call is started, the lock is not taken and table urls is
\* unchanged.
C15_RejectedBeforeStore ==
    [][\A b \in Bodies :
          (/\ NewRequest(Shorten(b))
           /\ b.json = "ok"
           /\ ~b.has_url \/ ~is_valid_url(b.url)) =>
              /\ sent'.req = Shorten(b)
              /\ sent'.resp.status = 400
              /\ pc' = pc
              /\ lock' = lock
              /\ urls' = urls]_vars

\* a mapping is stored and a shorten request has just been turned down as
\* invalid
C15_Witness ==
    /\ sent.req.op = "shorten"
    /\ sent.resp.status = 400
    /\ sent.resp.error = "Invalid URL format"
    /\ urls # {}

\* C16 (as claimed): a shorten request whose body is not a JSON document is
\* answered 400.
C16_MalformedBadRequest ==
    (sent.req.op = "shorten" /\ sent.req.json # "ok") => sent.resp.status = 400

C19_ReadsArePure ==
    [][/\ \A c \in PathCodes : NewRequest(Lookup("stats", c)) => urls' = urls
       /\ \A t \in Threads :
             (StepOf(t) /\ (req[t].op = "stats" \/ pc[t] = "get_db")) =>
                 urls' = urls]_vars

\* a stats request has just reported a mapping nobody visited, and the
\* mapping is stored as reported
C19_Witness ==
    /\ sent.req.op = "stats"
    /\ sent.resp.status = 200
    /\ sent.resp.click_count = 0
    /\ \E r \in urls : r.short_code = sent.req.code /\ r.click_count = 0

\* C20: on a code without a mapping get_url_mapping returns None, so the
\* redirect or stats request that asked is answered as not found, and
\* increment_click_count returns False; neither call creates a row for the
\* code or changes table urls.
C20_NotFound ==
    [][\A t \in Threads :
          (StepOf(t) /\ Matching(urls, req[t].code) = {}) =>
              /\ (pc[t] = "get_db" /\ req[t].op \in {"redirect", "stats"}) =>
                    /\ get_url_mapping(urls, req[t].code, FALSE) = None
                    /\ pc'[t] = "idle"
                    /\ sent'.resp.status \notin {200, 302}
                    /\ urls' = urls
              /\ pc[t] = "incr_db" =>
                    /\ ~increment_click_count(urls, req[t].code, FALSE).ok
                    /\ increment_click_count(urls, req[t].code, FALSE).rows = urls
                    /\ urls' = urls]_vars

\* a redirect read the mapping, the mapping was deleted, and the redirect's
\* increment_click_count has just run on the code without a row
C20_Witness ==
    /\ sent.req.op = "redirect"
    /\ sent.resp.status = 302
    /\ Matching(urls, sent.req.code) = {}

\* C21: with storage available, a redirect request whose lookup finds a
\* mapping of its code keeps that mapping, goes on to count the visit, and
\* is answered 302 with Location equal to the original_url the lookup read.
C21_RedirectLocation ==
    [][\A t \in Threads :
          (StepOf(t) /\ req[t].op = "redirect") =>
              /\ (pc[t] = "get_db" /\ Matching(urls, req[t].code) # {}) =>
                    /\ pc'[t] = "incr_wait"
                    /\ mapping'[t] \in Matching(urls, req[t].code)
              /\ pc[t] = "incr_wait" => mapping'[t] = mapping[t]
              /\ pc[t] = "incr_db" =>
                    /\ sent'.req = req[t]
                    /\ sent'.resp.status = 302
                    /\ sent'.resp.location = mapping[t].original_url]_vars

\* a redirect of a stored code has just been answered with the stored URL
C21_Witness ==
    /\ sent.req.op = "redirect"
    /\ sent.resp.status = 302
    /\ \E r \in urls : /\ r.short_code = sent.req.code
                       /\ r.original_url = sent.resp.location
                       /\ r.click_count >= 1

\* C22: failed store calls leave no partial state: a create_url_mapping that
\* returns False (collision or storage error) and a code generation that
\* gives up leave table urls as it was, and an increment_click_count that
\* returns False changes no click_count.
C22_NoPartialState ==
    [][\A t \in Threads :
          StepOf(t) =>
              /\ pc[t] = "create_db" =>
                    /\ sent'.resp.status # 201 =>
                          /\ sent'.resp.status = 500
                          /\ urls' = urls
                    /\ \A fail \in BOOLEAN : \A now \in clock..MaxTime :
                          LET r == create_url_mapping(urls, short_code[t],
                                                      sanitized_url[t], now, fail)
                          IN  ~r.ok => r.rows = urls
              /\ (pc[t] = "get_db" /\ req[t].op = "shorten") => urls' = urls
              /\ pc[t] = "incr_db" =>
                    /\ \A fail \in BOOLEAN :
                          LET r == increment_click_count(urls, req[t].code, fail)
                          IN  ~r.ok => r.rows = urls
                    /\ \/ urls' = urls
                       \/ /\ increment_click_count(urls, req[t].code, FALSE).ok
                          /\ urls' = increment_click_count(urls, req[t].code,
                                                           FALSE).rows]_vars

\* the storage engine failed during the INSERT of a shorten request and the
\* table is empty
C22_Witness ==
    /\ sent.req.op = "shorten"
    /\ sent.resp.error = "Failed to create URL mapping"
    /\ urls = {}

\* C23: a collision on insert is no silent overwrite: when create_url_mapping
\* runs for a short code that has a mapping it returns False, the request is
\* answered 500 (failed to create), and the stored mapping keeps its
\* original_url, created_at and click_count.
C23_NoSilentOverwrite ==
    [][\A t \in Threads :
          (StepOf(t) /\ pc[t] = "create_db" /\ Matching(urls, short_code[t]) # {}) =>
              /\ \A fail \in BOOLEAN : \A now \in clock..MaxTime :
                    ~create_url_mapping(urls, short_code[t], sanitized_url[t],
                                        now, fail).ok
              /\ sent'.req = req[t]
              /\ sent'.resp.status = 500
              /\ sent'.resp.error = "Failed to create URL mapping"
              /\ urls' = urls]_vars

\* an insert of "https://example.com" under a code that maps to another URL
\* has just been turned down, and the code still maps to that URL
C23_Witness ==
    /\ sent.req.url = "https://example.com"
    /\ sent.resp.error = "Failed to create URL mapping"
    /\ \E r \in urls : r.original_url = "http://localhost:3000"

\* C24 (as claimed): a storage failure is never reported as not found and
\* never read as "the candidate is free": a stats request for a code that
\* has a mapping is not answered 404, and a shorten request goes on to
\* insert a candidate only when the candidate has no mapping.
C24_FailureIsDistinct ==
    [][\A t \in Threads :
          (StepOf(t) /\ pc[t] = "get_db") =>
              /\ (req[t].op = "stats" /\ Matching(urls, req[t].code) # {}) =>
                    sent'.resp.status # 404
              /\ (req[t].op = "shorten" /\ pc'[t] = "create_wait") =>
                    Matching(urls, short_code'[t]) = {}]_vars

\* C25: with storage available delete_url(code) returns True exactly when
\* the code had a mapping; afterwards the code has none (get_url_mapping
\* returns None), every mapping of another code is as before, and when the
\* code had no mapping the table is unchanged.
C25_DeleteExactly ==
    [][\A t \in Threads :
          (StepOf(t) /\ pc[t] = "delete_db") =>
              /\ sent'.req = req[t]
              /\ sent'.resp.ret = (Matching(urls, req[t].code) # {})
              /\ get_url_mapping(urls', req[t].code, FALSE) = None
              /\ urls' = {r \in urls : r.short_code # req[t].code}
              /\ Matching(urls, req[t].code) = {} => urls' = urls]_vars

\* a delete has just removed a mapping and returned True, and the mapping
\* of another code is still stored
C25_Witness ==
    /\ sent.req.op = "delete"
    /\ sent.resp.ret
    /\ Matching(urls, sent.req.code) = {}
    /\ urls # {}

\* C26: normalisation is idempotent: for every argument x, empty, blank,
\* without scheme or with an upper-case scheme, sanitize_url applied to the
\* value sanitize_url(x) returned gives that value again.
C26_Idempotent ==
    sent.req.op = "sanitize_url" =>
        sanitize_url(sent.resp.original_url) = sent.resp.original_url

\* sanitize_url has returned for a blank-padded URL with an upper-case
\* scheme, which got the http:// prefix
C26_Witness ==
    /\ sent.req.op = "sanitize_url"
    /\ sent.req.url = " HTTP://a.com"
    /\ sent.resp.original_url = "http://HTTP://a.com"

\* C27: is_valid_url is false for "not-a-url", "ftp://example.com",
\* "https://", "http://.com" and "", and a shorten request with one of them
\* is answered 400; it is true for "https://www.example.com",
\* "http://localhost:3000" and "http://192.168.1.1:8080", and a shorten
\* request with one of them is answered 201, unless each of its 10 draws
\* met a stored code.
C27_BoundaryCases ==
    /\ \A u \in RejectedUrls : ~is_valid_url(u)
    /\ \A u \in AcceptedUrls : is_valid_url(u)
    /\ (sent.req.op = "shorten" /\ sent.req.url \in RejectedUrls) =>
          sent.resp.status = 400
    /\ (sent.req.op = "shorten" /\ sent.req.url \in AcceptedUrls) =>
          \/ /\ sent.resp.status = 201
             /\ sent.resp.original_url = sent.req.url
          \/ /\ sent.resp.error = "Unable to generate unique short code"
             /\ \E c \in GenCodes : Matching(urls, c) # {}

\* the shorten request of a URL with an IPv4 host and a port has just been
\* answered 201
C27_Witness ==
    /\ sent.req.url = "http://192.168.1.1:8080"
    /\ sent.resp.status = 201

\* C30 (as claimed): every original_url in table urls satisfies
\* is_valid_url, whatever raw URL the shorten request accepted.
C30_StoredUrlsValid ==
    \A r \in urls : is_valid_url(r.original_url)

\* C28 (as claimed): a stats lookup of one code is not blocked by a create
\* or an increment in progress on another code: while a thread is inside
\* create_url_mapping or increment_click_count, a thread that is about to
\* run get_url_mapping for a different code can enter.
C28_ReadsNotBlocked ==
    \A t \in Threads : \A u \in Threads \ {t} :
        (/\ pc[t] = "get_wait"
         /\ req[t].op = "stats"
         /\ \/ pc[u] = "create_db" /\ short_code[u] # req[t].code
            \/ pc[u] = "incr_db" /\ req[u].code # req[t].code)
            => ENABLED acquire(t)

C31_StoredCodesWellFormed ==
    [][/\ sent'.req.op = "shorten" =>
            \A r \in urls' \ urls :
                /\ Len(r.short_code) = 6
                /\ AllIn(r.short_code, Alnum)
                /\ validate_short_code(r.short_code)
       /\ \A op \in {"redirect", "stats"} : \A r \in urls :
            NewRequest(Lookup(op, r.short_code)) =>
                \E t \in Threads : /\ pc[t] = "idle"
                                   /\ pc'[t] = "get_wait"
                                   /\ req'[t] = Lookup(op, r.short_code)]_vars

\* a code issued by a shorten request has been looked up by a stats request
\* and found
C31_Witness ==
    /\ sent.req.op = "stats"
    /\ sent.resp.status = 200
    /\ issued[sent.req.code] > 0
    /\ \E r \in urls : r.short_code = sent.req.code

\* C33: while one visit of code c is recorded and stats requests read c
\* concurrently, a stats answer carries the whole stored mapping of c with
\* click_count equal to the value before the visit or to that value plus
\* one, and nothing else.
C33_BeforeOrAfter ==
    [][\A t \in Threads :
          (/\ StepOf(t)
           /\ pc[t] = "get_db"
           /\ req[t].op = "stats"
           /\ sent'.resp.status = 200) =>
              LET before == first_stored[req[t].code]
                  after  == [before EXCEPT !.click_count = @ + 1]
              IN  /\ sent'.req = req[t]
                  /\ sent'.resp \in {stats(before), stats(after)}]_vars

\* a stats request has been answered with the earlier count while the
\* redirect of the same code is between its lookup and its increment
C33_Witness ==
    /\ pc[1] \in {"incr_wait", "incr_db"}
    /\ sent.req = Lookup("stats", req[1].code)
    /\ sent.resp = stats(first_stored[req[1].code])

\* C32: validate_short_code(s) is true exactly when s has 6 characters, each
\* of them in [A-Za-z0-9]; it is false for the empty string, for a shorter
\* or longer one, and for one with a character outside that alphabet.
C32_ValidIffAscii ==
    sent.req.op = "validate_short_code" =>
        (sent.resp.ret <=> (Len(sent.req.code) = 6 /\ AllIn(sent.req.code, Alnum)))

\* C34: at most one thread is inside the database section of a store
\* operation, that thread is the one holding the lock, and a thread that is
\* not inside a database section, because its operation has returned or
\* failed or has not begun, does not hold the lock.
C34_MutualExclusion ==
    LET Inside == {t \in Threads : pc[t] \in {Locked(p) : p \in WaitPcs}}
    IN  /\ Cardinality(Inside) <= 1
        /\ lock \in {0} \cup Threads
        /\ \A t \in Threads : t \in Inside <=> lock = t

\* an insert has just failed and returned, the lock is free again, and
\* another thread is waiting to enter
C34_Witness ==
    /\ sent.req.op = "shorten"
    /\ sent.resp.status = 500
    /\ sent.resp.error = "Failed to create URL mapping"
    /\ lock = 0
    /\ \E t \in Threads : pc[t] \in WaitPcs

=============================================================================
